---------------------------- MODULE Spec2Model ----------------------------
(***************************************************************************)
(* Model of two parts of maddy:                                            *)
(*   - the SQL storage delivery target (storage/sql/sql.go): Storage.Init, *)
(*     Storage.GetOrCreateUser, Storage.Start and the delivery methods     *)
(*     AddRcpt, Body, Abort, Commit;                                       *)
(*   - the DKIM signing modifier (sign_dkim): Modifier.Init, fieldsToSign  *)
(*     and the methods of the per-message state.                           *)
(* Strings are sequences of one-character strings, so that case folding,   *)
(* substring search and splitting are computed rather than assumed.        *)
(* The go-imap-sql backend (imapsql.Delivery) and the go-msgauth signer    *)
(* are external libraries: their answers are chosen nondeterministically,  *)
(* and every call made to them is recorded.                                *)
(***************************************************************************)
EXTENDS Integers, Sequences, FiniteSets, TLC

(***************************************************************************)
(* Bounds.                                                                 *)
(***************************************************************************)
\* Number of calls made on delivery objects (AddRcpt, Body, Abort, Commit)
\* in one behaviour.
MaxOps == 3

\* Length of the configured oversign_fields and sign_fields lists.
MaxListLen == 2

\* Number of calls made on the modifier and its states (ModStateForMsg,
\* RewriteSender, RewriteRcpt, RewriteBody, Close) in one behaviour.
MaxSignOps == 2

(***************************************************************************)
(* Strings.                                                                *)
(***************************************************************************)
\* strings.ToLower on one character of the alphabet used by the model.
LowerChar(c) ==
    CASE c = "A" -> "a"
      [] c = "B" -> "b"
      [] c = "X" -> "x"
      [] OTHER -> c

\* strings.ToLower.
ToLower(s) == [i \in 1..Len(s) |-> LowerChar(s[i])]

\* strings.Contains(s, c) for a one-character c.
Contains(s, c) == \E i \in 1..Len(s) : s[i] = c

\* strings.IndexByte: the first position of c in s, 0 when there is none.
IndexOf(s, c) ==
    IF Contains(s, c)
    THEN CHOOSE i \in 1..Len(s) : s[i] = c /\ \A j \in 1..(i - 1) : s[j] # c
    ELSE 0

\* The recipient addresses given to AddRcpt: "b", "B@x", "b@X", "a@x",
\* "a@x@x" (two at-signs), "@x" (empty local part).
RcptAddrs ==
    { <<"b">>,
      <<"B", "@", "x">>,
      <<"b", "@", "X">>,
      <<"a", "@", "x">>,
      <<"a", "@", "x", "@", "x">>,
      <<"@", "x">> }


(***************************************************************************)
(* Header sets (textproto.Header): a sequence of fields, each a key and a  *)
(* value.  Keys are strings; values are sequences of characters.           *)
(***************************************************************************)
\* textproto.Header.Add: one more field; the fields already there are kept.
HeaderAdd(h, k, v) == Append(h, [k |-> k, v |-> v])

\* textproto.Header.Copy: a header with the same fields.
HeaderCopy(h) == h

(***************************************************************************)
(* Error values.                                                           *)
(***************************************************************************)
Nil == [kind |-> "nil", code |-> 0, enh |-> <<>>, err |-> "nil"]

\* smtp.SMTPError{Code, EnhancedCode}.
SMTPError(code, enh) == [kind |-> "SMTPError", code |-> code, enh |-> enh, err |-> "smtp"]

\* An error value made by the backend (or another library), returned as is.
LibError(e) == [kind |-> "error", code |-> 0, enh |-> <<>>, err |-> e]

\* The sentinels AddRcpt recognises, and the other answers of the backend.
ErrUserDoesntExists == LibError("imapsql.ErrUserDoesntExists")
ErrNoSuchMailbox == LibError("backend.ErrNoSuchMailbox")
ErrBackendIO == LibError("backend I/O error")

\* What a call on the backend's delivery handle can return.
BackendResults == {Nil, ErrUserDoesntExists, ErrNoSuchMailbox, ErrBackendIO}

(***************************************************************************)
(* Account resolution.                                                     *)
(***************************************************************************)
\* address.Split: the mailbox is the part before the first at-sign, or the
\* whole string when there is none; an address with an empty mailbox is
\* malformed.
Split(addr) ==
    LET i == IndexOf(addr, "@")
        mailbox == IF i = 0 THEN addr ELSE SubSeq(addr, 1, i - 1)
    IN  IF mailbox = <<>>
        THEN [err |-> TRUE, mailbox |-> <<>>]
        ELSE [err |-> FALSE, mailbox |-> mailbox]

(***************************************************************************)
(* State.                                                                  *)
(***************************************************************************)
VARIABLES
    storagePerDomain,   \* Storage.storagePerDomain
    deliveries,         \* the delivery objects made by Storage.Start, by id
    handles,            \* the backend's side of each delivery (imapsql.Delivery)
    nops,               \* number of calls made so far
    last,               \* the last call made and what it returned
    modifier,           \* the sign_dkim Modifier after Init
    msg,                \* the message of the current modifier state
    nsigns,             \* number of calls made on modifier states
    signLast,           \* the last modifier call and what it returned
    back,               \* Storage.back: the backend opened by Init, or nil
    inited,             \* for each module, whether its Init was called
    initLast            \* the last Init or GetOrCreateUser call: what it was
                        \* given, what it returned and the calls it made

storageVars == <<storagePerDomain, deliveries, handles, nops, last>>

signVars == <<modifier, msg, nsigns, signLast>>

initVars == <<back, inited, initLast>>

vars == <<storageVars, signVars, initVars>>

\* The delivery objects a behaviour can hold.
DeliveryIds == {1, 2}

\* Storage.junkMbox (default of the junk_mailbox directive).
JunkMbox == "Junk"

\* Envelope senders given to Start: one carrying a line break.
MailFroms == { <<"m", "\n", "x">> }

\* msgMeta.BodyLength of the messages delivered.
BodyLengths == {7}

\* Header sets given to Body.
BodyHeaders == { <<[k |-> "Subject", v |-> <<"s">>]>> }

\* No delivery object under this id (Start not called, or Start failed).
NoDelivery == [started |-> FALSE]

\* The backend's delivery handle before any call: no call made, no recipient
\* accepted, not finalized.
FreshHandle == [calls |-> <<>>, added |-> {}, final |-> "open"]

\* A record of one call on the backend's delivery handle.
BackendCall(op, account, header, mbox, length) ==
    [op |-> op, account |-> account, header |-> header, mbox |-> mbox,
     length |-> length, use |-> ""]

\* specialuse.Junk: the special-use attribute of the junk mailbox.
SpecialUseJunk == "\\Junk"

\* A record of one SpecialMailbox call on the backend's delivery handle.
SpecialMailboxCall(use, mbox) ==
    [BackendCall("SpecialMailbox", <<>>, <<>>, mbox, 0) EXCEPT !.use = use]

\* The record of the last call made on a delivery: the object, the method,
\* its argument, the value returned and the backend's answers during it.
LastCall(id, op, arg, ret, backRets) ==
    [id |-> id, op |-> op, arg |-> arg, ret |-> ret, backRets |-> backRets]

(***************************************************************************)
(* delivery.AddRcpt                                                        *)
(***************************************************************************)
\* A resolution that takes the whole address under either policy.
ResolveAccountWhole(perDomain, rcptTo) ==
    [err |-> FALSE, accountName |-> ToLower(rcptTo)]

\* A resolution that keeps the letter case of the address.
ResolveAccountNoFold(perDomain, rcptTo) ==
    IF perDomain
    THEN [err |-> FALSE, accountName |-> rcptTo]
    ELSE LET sp == Split(rcptTo)
         IN  IF sp.err
             THEN [err |-> TRUE, accountName |-> <<>>]
             ELSE [err |-> FALSE, accountName |-> sp.mailbox]

\* The account name of a recipient, or a resolution error.
ResolveAccount(perDomain, rcptTo) ==
    IF perDomain
    THEN [err |-> FALSE, accountName |-> ToLower(rcptTo)]
    ELSE LET sp == Split(rcptTo)
         IN  IF sp.err
             THEN [err |-> TRUE, accountName |-> <<>>]
             ELSE [err |-> FALSE, accountName |-> ToLower(sp.mailbox)]

\* A duplicate check against the recipients of every delivery of the
\* Storage.
AlreadyAddedAnywhere(addedRcpts, accountName) ==
    \E id \in DOMAIN deliveries :
        deliveries[id].started /\ accountName \in deliveries[id].addedRcpts

\* A duplicate check that never finds the account.
AlreadyAddedNever(addedRcpts, accountName) == FALSE

\* Whether the account is in the delivery's addedRcpts.
AlreadyAdded(addedRcpts, accountName) == accountName \in addedRcpts

\* A per-recipient header that carries the case-folded address.
UserHeaderFolded(rcptTo) == HeaderAdd(<<>>, "Delivered-To", ToLower(rcptTo))

\* The header passed to the backend for one recipient.
UserHeader(rcptTo) == HeaderAdd(<<>>, "Delivered-To", rcptTo)

\* An error translation that knows only one of the two sentinels.
AddRcptErrorOneSentinel(err) ==
    IF err = LibError("imapsql.ErrUserDoesntExists")
    THEN SMTPError(550, <<5, 1, 1>>)
    ELSE err

\* What AddRcpt returns when the backend's AddRcpt returned err (not nil).
AddRcptError(err) ==
    IF err = ErrUserDoesntExists \/ err = ErrNoSuchMailbox
    THEN SMTPError(550, <<5, 1, 1>>)
    ELSE err

\* The state of the backend's handle after one more call on it.  A Commit
\* or Abort that returns nil finalizes the handle.
HandleAfter(h, call, resp) ==
    [calls |-> Append(h.calls, call),
     added |-> IF call.op = "AddRcpt" /\ resp = Nil
               THEN h.added \cup {call.account} ELSE h.added,
     final |-> IF call.op \in {"Commit", "Abort"} /\ resp = Nil /\ h.final = "open"
               THEN call.op ELSE h.final]

\* An AddRcpt that records the account before it asks the backend.
AddRcptRecordsFirst(id, rcptTo, resp) ==
    /\ nops < MaxOps
    /\ deliveries[id].started
    /\ nops' = nops + 1
    /\ UNCHANGED <<storagePerDomain, signVars, initVars>>
    /\ LET d == deliveries[id]
           r == ResolveAccount(storagePerDomain, rcptTo)
       IN  IF r.err
           THEN /\ last' = LastCall(id, "AddRcpt", rcptTo, SMTPError(501, <<5, 1, 3>>), <<>>)
                /\ UNCHANGED <<deliveries, handles>>
           ELSE IF AlreadyAdded(d.addedRcpts, r.accountName)
           THEN /\ last' = LastCall(id, "AddRcpt", rcptTo, Nil, <<>>)
                /\ UNCHANGED <<deliveries, handles>>
           ELSE LET call == BackendCall("AddRcpt", ToLower(r.accountName), UserHeader(rcptTo), "", 0)
                IN  /\ handles' = [handles EXCEPT ![id] = HandleAfter(@, call, resp)]
                    /\ deliveries' = [deliveries EXCEPT ![id].addedRcpts =
                                         @ \cup {r.accountName}]
                    /\ last' = LastCall(id, "AddRcpt", rcptTo,
                                        IF resp # Nil THEN AddRcptError(resp) ELSE Nil,
                                        <<resp>>)

AddRcpt(id, rcptTo, resp) ==
    /\ nops < MaxOps
    /\ deliveries[id].started
    /\ nops' = nops + 1
    /\ UNCHANGED <<storagePerDomain, signVars, initVars>>
    /\ LET d == deliveries[id]
           r == ResolveAccount(storagePerDomain, rcptTo)
       IN  IF r.err
           THEN /\ last' = LastCall(id, "AddRcpt", rcptTo, SMTPError(501, <<5, 1, 3>>), <<>>)
                /\ UNCHANGED <<deliveries, handles>>
           ELSE IF AlreadyAdded(d.addedRcpts, r.accountName)
           THEN /\ last' = LastCall(id, "AddRcpt", rcptTo, Nil, <<>>)
                /\ UNCHANGED <<deliveries, handles>>
           ELSE LET call == BackendCall("AddRcpt", ToLower(r.accountName), UserHeader(rcptTo), "", 0)
                IN  /\ handles' = [handles EXCEPT ![id] = HandleAfter(@, call, resp)]
                    /\ IF resp # Nil
                       THEN /\ last' = LastCall(id, "AddRcpt", rcptTo, AddRcptError(resp), <<resp>>)
                            /\ UNCHANGED deliveries
                       ELSE /\ last' = LastCall(id, "AddRcpt", rcptTo, Nil, <<resp>>)
                            /\ deliveries' = [deliveries EXCEPT ![id].addedRcpts =
                                                 @ \cup {r.accountName}]

(***************************************************************************)
(* delivery.Body                                                           *)
(***************************************************************************)
\* target.SanitizeForHeader: the string without its line breaks.
SanitizeForHeader(raw) == SelectSeq(raw, LAMBDA c : c \notin {"\n", "\r"})

\* The header Body passes to the backend: a copy of the message's header
\* with a Return-Path field added.
BodyHeader(header, mailFrom) ==
    HeaderAdd(HeaderCopy(header), "Return-Path",
              <<"<">> \o SanitizeForHeader(mailFrom) \o <<">">>)

\* One body deposit for each recipient added.
BodyDepositsPerRcpt(d, header) ==
    [i \in 1..Cardinality(d.addedRcpts) |->
        BackendCall("BodyParsed", <<>>, BodyHeader(header, d.mailFrom), "",
                    d.msgMeta.BodyLength)]

\* The body deposits Body makes on the backend's handle.
BodyDeposits(d, header) ==
    << BackendCall("BodyParsed", <<>>, BodyHeader(header, d.mailFrom), "",
                   d.msgMeta.BodyLength) >>

\* The handle after a sequence of calls that all got the answer resp.
RECURSIVE HandleAfterAll(_, _, _)
HandleAfterAll(h, calls, resp) ==
    IF calls = <<>> THEN h
    ELSE HandleAfterAll(HandleAfter(h, Head(calls), resp), Tail(calls), resp)

\* A Body that never routes to the junk mailbox.
JunkCallsNone(d) == <<>>

\* The junk-routing instruction Body gives the backend before the deposit:
\* one SpecialMailbox call when the message is quarantined, none otherwise.
JunkCalls(d) ==
    IF d.msgMeta.Quarantine
    THEN << SpecialMailboxCall(SpecialUseJunk, JunkMbox) >>
    ELSE <<>>

Body(id, header, respJunk, resp) ==
    /\ nops < MaxOps
    /\ deliveries[id].started
    /\ nops' = nops + 1
    /\ UNCHANGED <<storagePerDomain, deliveries, signVars, initVars>>
    /\ LET d == deliveries[id]
           junk == JunkCalls(d)
           h1 == HandleAfterAll(handles[id], junk, respJunk)
           rets1 == [i \in 1..Len(junk) |-> respJunk]
       IN  IF junk # <<>> /\ respJunk # Nil
           THEN /\ handles' = [handles EXCEPT ![id] = h1]
                /\ last' = LastCall(id, "Body", <<>>, respJunk, rets1)
           ELSE /\ handles' = [handles EXCEPT ![id] =
                                  HandleAfterAll(h1, BodyDeposits(d, header), resp)]
                /\ last' = LastCall(id, "Body", <<>>, resp,
                                    rets1 \o [i \in 1..Len(BodyDeposits(d, header)) |-> resp])

(***************************************************************************)
(* delivery.Abort, delivery.Commit, Storage.Start                          *)
(***************************************************************************)
Abort(id, resp) ==
    /\ nops < MaxOps
    /\ deliveries[id].started
    /\ nops' = nops + 1
    /\ UNCHANGED <<storagePerDomain, deliveries, signVars, initVars>>
    /\ handles' = [handles EXCEPT ![id] =
                      HandleAfter(@, BackendCall("Abort", <<>>, <<>>, "", 0), resp)]
    /\ last' = LastCall(id, "Abort", <<>>, resp, <<resp>>)

\* A Commit that calls the backend again when the first call failed.
CommitWithRetry(id, resp) ==
    /\ nops < MaxOps
    /\ deliveries[id].started
    /\ nops' = nops + 1
    /\ UNCHANGED <<storagePerDomain, deliveries, signVars, initVars>>
    /\ LET call == BackendCall("Commit", <<>>, <<>>, "", 0)
           calls == IF resp = Nil THEN <<call>> ELSE <<call, call>>
       IN  /\ handles' = [handles EXCEPT ![id] = HandleAfterAll(@, calls, resp)]
           /\ last' = LastCall(id, "Commit", <<>>, resp, [i \in 1..Len(calls) |-> resp])

Commit(id, resp) ==
    /\ nops < MaxOps
    /\ deliveries[id].started
    /\ nops' = nops + 1
    /\ UNCHANGED <<storagePerDomain, deliveries, signVars, initVars>>
    /\ handles' = [handles EXCEPT ![id] =
                      HandleAfter(@, BackendCall("Commit", <<>>, <<>>, "", 0), resp)]
    /\ last' = LastCall(id, "Commit", <<>>, resp, <<resp>>)

\* Storage.Start: resp is the answer of the backend's StartDelivery.
Start(id, msgMeta, mailFrom, resp) ==
    /\ ~deliveries[id].started
    /\ UNCHANGED <<storagePerDomain, handles, nops, signVars, initVars>>
    /\ last' = LastCall(id, "Start", <<>>, resp, <<resp>>)
    /\ IF resp # Nil
       THEN UNCHANGED deliveries
       ELSE deliveries' = [deliveries EXCEPT ![id] =
                              [started |-> TRUE, msgMeta |-> msgMeta,
                               mailFrom |-> mailFrom, addedRcpts |-> {}]]

MsgMetas == [Quarantine : BOOLEAN, BodyLength : BodyLengths]

StorageInit ==
    /\ storagePerDomain \in BOOLEAN
    /\ deliveries = [id \in DeliveryIds |-> NoDelivery]
    /\ handles = [id \in DeliveryIds |-> FreshHandle]
    /\ nops = 0
    /\ last = LastCall(0, "none", <<>>, Nil, <<>>)

\* The calls a caller can make on the delivery object id.
DeliveryNext(id) ==
    \/ \E m \in MsgMetas, f \in MailFroms, resp \in {Nil, ErrBackendIO} :
          Start(id, m, f, resp)
    \/ \E rcptTo \in RcptAddrs, resp \in BackendResults : AddRcpt(id, rcptTo, resp)
    \/ \E h \in BodyHeaders, r1 \in {Nil, ErrBackendIO}, r2 \in {Nil, ErrBackendIO} :
          Body(id, h, r1, r2)
    \/ \E resp \in {Nil, ErrBackendIO} : Abort(id, resp)
    \/ \E resp \in {Nil, ErrBackendIO} : Commit(id, resp)

(***************************************************************************)
(* sign_dkim: the Modifier and its per-message state.                      *)
(***************************************************************************)
\* Field names of the configured lists, and the keys of message headers
\* (a textproto.Header holds its keys in canonical form).
ConfigNames == {"From", "from", "Subject"}
HeaderKeys == {"From", "Subject"}

\* strings.ToLower on a field name.
ToLowerName(k) ==
    CASE k = "From" -> "from"
      [] k = "Subject" -> "subject"
      [] k = "DKIM-Signature" -> "dkim-signature"
      [] OTHER -> k

\* textproto.CanonicalMIMEHeaderKey on a field name.
CanonicalKey(k) ==
    CASE k = "from" -> "From"
      [] k = "subject" -> "Subject"
      [] OTHER -> k

\* All sequences over S of length at most n.
SeqsUpTo(S, n) == UNION {[1..k -> S] : k \in 0..n}

\* Number of fields h.FieldsByKey(key) iterates over.
FieldsByKey(h, key) ==
    Cardinality({i \in 1..Len(h) : h[i].k = CanonicalKey(key)})

\* Whether the name was met before in the configured lists.
SeenExact(seen, key) == key \in seen

Seen(seen, key) == ToLowerName(key) \in seen

\* The references the oversign loop adds for one name: one for each field
\* of that name, and one more.
OversignRefsNoExtra(h, key) == [i \in 1..FieldsByKey(h, key) |-> key]

OversignRefs(h, key) == [i \in 1..FieldsByKey(h, key) |-> key] \o <<key>>

\* The references the sign loop adds for one name: one for each field.
SignRefs(h, key) == [i \in 1..FieldsByKey(h, key) |-> key]

\* One of the two loops of fieldsToSign over a configured list.
RECURSIVE FieldsLoop(_, _, _, _, _)
FieldsLoop(h, keys, seen, res, oversign) ==
    IF keys = <<>> THEN [seen |-> seen, res |-> res]
    ELSE LET key == Head(keys)
         IN  IF Seen(seen, key)
             THEN FieldsLoop(h, Tail(keys), seen, res, oversign)
             ELSE FieldsLoop(h, Tail(keys), seen \cup {ToLowerName(key)},
                             res \o (IF oversign THEN OversignRefs(h, key)
                                                 ELSE SignRefs(h, key)),
                             oversign)

\* A fieldsToSign that runs the loop over the sign list first.
fieldsToSignSignFirst(m, h) ==
    LET sign == FieldsLoop(h, m.signHeader, {}, <<>>, FALSE)
    IN  FieldsLoop(h, m.oversignHeader, sign.seen, sign.res, TRUE).res

\* Modifier.fieldsToSign.
fieldsToSign(m, h) ==
    LET over == FieldsLoop(h, m.oversignHeader, {}, <<>>, TRUE)
    IN  FieldsLoop(h, m.signHeader, over.seen, over.res, FALSE).res

\* The envelope senders of messages (msgMeta.OriginalFrom): "a" and "a@b".
OriginalFroms == { <<"a">>, <<"a", "@", "b">> }

\* The header sets of messages.
MsgHeaders ==
    LET f(k) == [k |-> k, v |-> <<"v">>]
    IN  { <<>>, <<f("Subject")>>, <<f("From"), f("From")>>,
          <<f("From"), f("Subject"), f("From")>> }

\* Values of time.Now() and of the sig_expiry directive.
Times == {10, 20}
SigExpiries == {0, 5}

\* An identifier that always gets the signing domain appended.
SignIdentifierAlwaysDomain(originalFrom, domain) ==
    originalFrom \o <<"@">> \o domain

\* The identifier of the signature.
SignIdentifier(originalFrom, domain) ==
    IF ~Contains(originalFrom, "@")
    THEN originalFrom \o <<"@">> \o domain
    ELSE originalFrom

\* Options whose expiration is set whatever the configured duration.
SignOptionsAlwaysExpire(m, meta, h, now) ==
    [Domain |-> m.domain,
     Selector |-> m.selector,
     Identifier |-> SignIdentifier(meta.OriginalFrom, m.domain),
     Hash |-> m.hash,
     HeaderCanonicalization |-> m.headerCanon,
     BodyCanonicalization |-> m.bodyCanon,
     HeaderKeys |-> fieldsToSign(m, h),
     Expiration |-> [set |-> TRUE, t |-> now + m.sigExpiry]]

\* dkim.SignOptions as RewriteBody builds them.
SignOptions(m, meta, h, now) ==
    [Domain |-> m.domain,
     Selector |-> m.selector,
     Identifier |-> SignIdentifier(meta.OriginalFrom, m.domain),
     Hash |-> m.hash,
     HeaderCanonicalization |-> m.headerCanon,
     BodyCanonicalization |-> m.bodyCanon,
     HeaderKeys |-> fieldsToSign(m, h),
     Expiration |-> IF m.sigExpiry # 0
                    THEN [set |-> TRUE, t |-> now + m.sigExpiry]
                    ELSE [set |-> FALSE, t |-> 0]]

\* The steps of RewriteBody that can fail, in the order they are taken.
SignSteps == <<"dkim.NewSigner", "textproto.WriteHeader", "body.Open", "io.Copy",
               "signer.Close">>
FailAts == {"none"} \cup {SignSteps[i] : i \in 1..Len(SignSteps)}

\* signer.SignatureValue(): the text made by the go-msgauth signer.
SignatureValue == <<"sig">>

\* A RewriteBody that adds the field before it looks at the result of
\* signer.Close.
RewriteBodyResultEarlyAdd(h, failAt) ==
    IF failAt \in {"dkim.NewSigner", "textproto.WriteHeader", "body.Open", "io.Copy"}
    THEN [err |-> LibError(failAt), h |-> h]
    ELSE [err |-> IF failAt = "signer.Close" THEN LibError(failAt) ELSE Nil,
          h |-> HeaderAdd(h, "DKIM-Signature", SignatureValue)]

\* What RewriteBody returns and the header it leaves, when the step failAt
\* fails ("none": no step fails).
RewriteBodyResult(h, failAt) ==
    IF failAt = "dkim.NewSigner" THEN [err |-> LibError(failAt), h |-> h]
    ELSE IF failAt = "textproto.WriteHeader" THEN [err |-> LibError(failAt), h |-> h]
    ELSE IF failAt = "body.Open" THEN [err |-> LibError(failAt), h |-> h]
    ELSE IF failAt = "io.Copy" THEN [err |-> LibError(failAt), h |-> h]
    ELSE IF failAt = "signer.Close" THEN [err |-> LibError(failAt), h |-> h]
    ELSE [err |-> Nil, h |-> HeaderAdd(h, "DKIM-Signature", SignatureValue)]

NoOptions ==
    [Domain |-> <<>>, Selector |-> <<>>, Identifier |-> <<>>, Hash |-> "",
     HeaderCanonicalization |-> "", BodyCanonicalization |-> "",
     HeaderKeys |-> <<>>, Expiration |-> [set |-> FALSE, t |-> 0]]

\* The record of the last call on a modifier state: the method, its string
\* argument, the header set it was given, the step that failed, the options
\* given to dkim.NewSigner, the string and the error returned, and the
\* value time.Now() had during the call (0 when the call does not read it).
SignCall(op, arg, h, failAt, opts, str, ret) ==
    [op |-> op, arg |-> arg, h |-> h, failAt |-> failAt, opts |-> opts,
     str |-> str, ret |-> ret, now |-> 0]

NoMessage == [active |-> FALSE, meta |-> [OriginalFrom |-> <<>>], header |-> <<>>]

\* Modifier.signer: nil before Init, and the key that loadOrGenerateKey
\* made from the file at keyPath after it.
NoSigner == [set |-> FALSE, keyPath |-> <<>>]
KeyLoaded(keyPath) == [set |-> TRUE, keyPath |-> keyPath]

\* Modifier.ModStateForMsg: the state of a new message.
ModStateForMsg(meta, h) ==
    /\ nsigns < MaxSignOps
    /\ nsigns' = nsigns + 1
    /\ msg' = [active |-> TRUE, meta |-> meta, header |-> h]
    /\ signLast' = SignCall("ModStateForMsg", <<>>, h, "none", NoOptions, <<>>, Nil)
    /\ UNCHANGED <<modifier, storageVars, initVars>>

RewriteSender(mailFrom) ==
    /\ nsigns < MaxSignOps
    /\ msg.active
    /\ nsigns' = nsigns + 1
    /\ signLast' = SignCall("RewriteSender", mailFrom, msg.header, "none", NoOptions,
                            mailFrom, Nil)
    /\ UNCHANGED <<modifier, msg, storageVars, initVars>>

RewriteRcpt(rcptTo) ==
    /\ nsigns < MaxSignOps
    /\ msg.active
    /\ nsigns' = nsigns + 1
    /\ signLast' = SignCall("RewriteRcpt", rcptTo, msg.header, "none", NoOptions,
                            rcptTo, Nil)
    /\ UNCHANGED <<modifier, msg, storageVars, initVars>>

\* A RewriteBody that keeps the computed field list in the Modifier.
RewriteBodyKeepsFields(failAt, now) ==
    /\ nsigns < MaxSignOps
    /\ msg.active
    /\ nsigns' = nsigns + 1
    /\ LET r == RewriteBodyResult(msg.header, failAt)
       IN  /\ msg' = [msg EXCEPT !.header = r.h]
           /\ signLast' = [SignCall("RewriteBody", <<>>, msg.header, failAt,
                                    SignOptions(modifier, msg.meta, msg.header, now),
                                    <<>>, r.err) EXCEPT !.now = now]
    /\ modifier' = [modifier EXCEPT !.signHeader = fieldsToSign(modifier, msg.header)]
    /\ UNCHANGED <<storageVars, initVars>>

RewriteBody(failAt, now) ==
    /\ nsigns < MaxSignOps
    /\ msg.active
    /\ nsigns' = nsigns + 1
    /\ LET r == RewriteBodyResult(msg.header, failAt)
       IN  /\ msg' = [msg EXCEPT !.header = r.h]
           /\ signLast' = [SignCall("RewriteBody", <<>>, msg.header, failAt,
                                    SignOptions(modifier, msg.meta, msg.header, now),
                                    <<>>, r.err) EXCEPT !.now = now]
    /\ UNCHANGED <<modifier, storageVars, initVars>>

Close ==
    /\ nsigns < MaxSignOps
    /\ msg.active
    /\ nsigns' = nsigns + 1
    /\ signLast' = SignCall("Close", <<>>, msg.header, "none", NoOptions, <<>>, Nil)
    /\ UNCHANGED <<modifier, msg, storageVars, initVars>>

\* The Modifier after a successful Init, with the lists of the
\* oversign_fields and sign_fields directives.
SignInit ==
    /\ modifier \in [domain : {<<"x">>}, selector : {<<"s">>},
                     oversignHeader : SeqsUpTo(ConfigNames, MaxListLen),
                     signHeader : SeqsUpTo(ConfigNames, MaxListLen),
                     headerCanon : {"relaxed"}, bodyCanon : {"simple"},
                     sigExpiry : SigExpiries, hash : {"sha256"},
                     signer : {KeyLoaded(<<"k">>)}]
    /\ msg = NoMessage
    /\ nsigns = 0
    /\ signLast = SignCall("none", <<>>, <<>>, "none", NoOptions, <<>>, Nil)

\* No modifier is configured.
SignIdle ==
    /\ modifier = [domain |-> <<>>, selector |-> <<>>, oversignHeader |-> <<>>,
                   signHeader |-> <<>>, headerCanon |-> "", bodyCanon |-> "",
                   sigExpiry |-> 0, hash |-> "", signer |-> NoSigner]
    /\ msg = NoMessage
    /\ nsigns = 0
    /\ signLast = SignCall("none", <<>>, <<>>, "none", NoOptions, <<>>, Nil)

\* No storage is in use.
StorageIdle ==
    /\ storagePerDomain = FALSE
    /\ deliveries = [id \in DeliveryIds |-> NoDelivery]
    /\ handles = [id \in DeliveryIds |-> FreshHandle]
    /\ nops = 0
    /\ last = LastCall(0, "none", <<>>, Nil, <<>>)

\* The calls the message pipeline can make on the modifier.
SignNext ==
    \/ \E f \in OriginalFroms, h \in MsgHeaders :
          ModStateForMsg([OriginalFrom |-> f], h)
    \/ \E f \in {<<"a">>} : RewriteSender(f)
    \/ \E r \in {<<"b">>} : RewriteRcpt(r)
    \/ \E failAt \in FailAts, now \in Times : RewriteBody(failAt, now)
    \/ Close

(***************************************************************************)
(* Storage.Init, Modifier.Init and Storage.GetOrCreateUser.                *)
(***************************************************************************)
Modules == {"sql", "sign_dkim"}

\* An error made with errors.New or fmt.Errorf.
ErrorsNew(text) == [kind |-> "errors.New", code |-> 0, enh |-> <<>>, err |-> text]

\* The record of a call made on something outside the module.
ExtCall(fn, args) == [fn |-> fn, args |-> args]

\* The record of the last Init or GetOrCreateUser call.
InitCall(op, cfg, ret, calls) == [op |-> op, cfg |-> cfg, ret |-> ret, calls |-> calls]

NoInitCall == InitCall("none", <<>>, Nil, <<>>)

\* A Go int (64 bits) is held in two parts, hi * Limb + lo with
\* 0 <= lo < Limb, so that values around 2^32 can be computed with.
Limb == 2^16

GoInt(hi, lo) == [hi |-> hi, lo |-> lo]

\* a > b on two ints.
Greater(a, b) == a.hi > b.hi \/ (a.hi = b.hi /\ a.lo > b.lo)

\* math.MaxUint32 = 4294967295.
MaxUint32 == GoInt(Limb - 1, Limb - 1)

\* The conversion uint32(v): v modulo 2^32.
Uint32(v) == GoInt(v.hi % Limb, v.lo)

\* The value -1, which stands for "no limit".
MinusOne == GoInt(-1, Limb - 1)

\* A limit test that lets every value through.
AppendLimitTooLargeNever(v) == FALSE

\* Whether Init refuses the append limit.
AppendLimitTooLarge(v) == Greater(v, MaxUint32)

\* opts.MaxMsgBytes for the value of the appendlimit directive.
MaxMsgBytes(v) ==
    IF v = MinusOne
    THEN [set |-> FALSE, val |-> GoInt(0, 0)]
    ELSE [set |-> TRUE, val |-> Uint32(v)]

\* Values of the appendlimit directive: no limit, 0, 1, the default of
\* 32 MiB, and values on both sides of 2^32.
AppendLimits ==
    { MinusOne, GoInt(0, 0), GoInt(0, 1), GoInt(512, 0),
      GoInt(Limb - 1, Limb - 2), GoInt(Limb - 1, Limb - 1),
      GoInt(Limb, 0), GoInt(Limb, 1), GoInt(2 * Limb + 7, 5) }

\* A nil []string, and a list that is not nil.
NilList == [isNil |-> TRUE, items |-> <<>>]
List(items) == [isNil |-> FALSE, items |-> items]

\* The values of the storage module's directives after cfg.Process.
StorageConfigs ==
    [driver : {"", "sqlite3"},
     dsn : {<<>>, <<"">>, <<"db">>},
     appendlimit : AppendLimits,
     storagePerDomain : BOOLEAN,
     authPerDomain : BOOLEAN,
     authDomains : {NilList, List(<<"x">>)},
     fsstore : {"", "fs", "/fs"}]

\* Whether auth_perdomain is used without auth_domains.
AuthDomainsMissing(cfg) == cfg.authPerDomain /\ cfg.authDomains.isNil

\* Whether the DSN is not specified.
DSNMissing(dsn) == Len(dsn) = 0 \/ (Len(dsn) = 1 /\ dsn[1] = "")

\* The directory of the external store: relative locations are taken from
\* the state directory.
FsstorePath(loc) == IF loc = "/fs" THEN "/fs" ELSE "state/" \o loc

\* Storage.Init from the call of cfg.Process on: what it returns, the calls
\* it makes outside and the value of store.back after it.  failAt names
\* the outside call that fails if Init comes to make it ("none": no call
\* fails).
StorageInitResult(cfg, failAt) ==
    LET mkdir == IF cfg.fsstore # ""
                 THEN << ExtCall("os.MkdirAll", [path |-> FsstorePath(cfg.fsstore)]) >>
                 ELSE <<>>
        opts == [MaxMsgBytes |-> MaxMsgBytes(cfg.appendlimit),
                 ExternalStore |-> IF cfg.fsstore # "" THEN FsstorePath(cfg.fsstore) ELSE ""]
        new == ExtCall("imapsql.New", [driver |-> cfg.driver, dsn |-> cfg.dsn, opts |-> opts])
        fail(err, calls) == [ret |-> err, calls |-> calls, back |-> "nil"]
    IN  IF failAt = "cfg.Process" THEN fail(LibError("cfg.Process"), <<>>)
        ELSE IF AuthDomainsMissing(cfg)
        THEN fail(ErrorsNew("sql: auth_domains must be set if auth_perdomain is used"), <<>>)
        ELSE IF cfg.fsstore # "" /\ failAt = "os.MkdirAll"
        THEN fail(LibError("os.MkdirAll"), mkdir)
        ELSE IF cfg.appendlimit # MinusOne /\ AppendLimitTooLarge(cfg.appendlimit)
        THEN fail(ErrorsNew("sql: appendlimit can't be higher than 2 GiB"), mkdir)
        ELSE IF cfg.driver = ""
        THEN fail(ErrorsNew("sql: driver is not specified"), mkdir)
        ELSE IF DSNMissing(cfg.dsn)
        THEN fail(ErrorsNew("sql: dsn is not specified"), mkdir)
        ELSE IF failAt = "imapsql.New"
        THEN fail(ErrorsNew("sql: imapsql.New"), Append(mkdir, new))
        ELSE [ret |-> Nil, calls |-> Append(mkdir, new), back |-> "backend"]

\* Storage.Init.  When cfg.Process fails, the directives it has stored by
\* then are not known: stored says whether storage_perdomain is one.
InitStorage(cfg, failAt, stored) ==
    /\ ~inited["sql"]
    /\ inited' = [inited EXCEPT !["sql"] = TRUE]
    /\ LET r == StorageInitResult(cfg, failAt)
       IN  /\ back' = r.back
           /\ initLast' = InitCall("Storage.Init", cfg, r.ret, r.calls)
    /\ storagePerDomain' = IF failAt = "cfg.Process" /\ ~stored THEN storagePerDomain
                           ELSE cfg.storagePerDomain
    /\ UNCHANGED <<deliveries, handles, nops, last, signVars>>

\* The part of the string before the first c: strings.Split(s, c)[0].
RECURSIVE FirstPart(_, _)
FirstPart(s, c) ==
    IF s = <<>> \/ Head(s) = c THEN <<>>
    ELSE <<Head(s)>> \o FirstPart(Tail(s), c)

\* Storage.GetOrCreateUser: resp is the answer of the backend.
GetOrCreateUser(username, resp) ==
    /\ inited["sql"] /\ back = "backend"
    /\ UNCHANGED <<storageVars, signVars, back, inited>>
    /\ IF storagePerDomain /\ ~Contains(username, "@")
       THEN initLast' = InitCall("GetOrCreateUser", username,
                                 ErrorsNew("GetOrCreateUser: username@domain required"), <<>>)
       ELSE LET accountName == IF storagePerDomain THEN username
                               ELSE FirstPart(username, "@")
            IN  initLast' = InitCall("GetOrCreateUser", username, resp,
                                     << ExtCall("back.GetOrCreateUser",
                                                [account |-> accountName]) >>)

\* The placeholders of the key_path directive.
DomainToken == <<"{", "d", "o", "m", "a", "i", "n", "}">>
SelectorToken == <<"{", "s", "e", "l", "e", "c", "t", "o", "r", "}">>

\* Whether the string starts with the given prefix.
HasPrefix(s, prefix) ==
    Len(s) >= Len(prefix) /\ SubSeq(s, 1, Len(prefix)) = prefix

\* A replacement that reads again what it has put in.
RECURSIVE ReplaceRescan(_, _, _)
ReplaceRescan(template, domain, selector) ==
    IF template = <<>> THEN <<>>
    ELSE IF HasPrefix(template, DomainToken)
    THEN ReplaceRescan(domain \o SubSeq(template, Len(DomainToken) + 1, Len(template)),
                       domain, selector)
    ELSE IF HasPrefix(template, SelectorToken)
    THEN ReplaceRescan(selector \o SubSeq(template, Len(SelectorToken) + 1, Len(template)),
                       domain, selector)
    ELSE <<Head(template)>> \o ReplaceRescan(Tail(template), domain, selector)

\* strings.NewReplacer("{domain}", domain, "{selector}", selector).Replace:
\* the template is read once from left to right and each placeholder met is
\* replaced; what was put in is not read again.
RECURSIVE Replace(_, _, _)
Replace(template, domain, selector) ==
    IF template = <<>> THEN <<>>
    ELSE IF HasPrefix(template, DomainToken)
    THEN domain \o Replace(SubSeq(template, Len(DomainToken) + 1, Len(template)),
                           domain, selector)
    ELSE IF HasPrefix(template, SelectorToken)
    THEN selector \o Replace(SubSeq(template, Len(SelectorToken) + 1, Len(template)),
                             domain, selector)
    ELSE <<Head(template)>> \o Replace(Tail(template), domain, selector)

\* Values of the key_path directive.
KeyPathTemplates ==
    { <<"k">>, DomainToken \o <<"_">> \o SelectorToken }

\* The default of the key_path directive: "dkim_keys/{domain}_{selector}.key".
DefaultKeyPathTemplate ==
    <<"d", "k", "i", "m", "_", "k", "e", "y", "s", "/">> \o DomainToken \o <<"_">> \o SelectorToken
      \o <<".", "k", "e", "y">>

\* The domain "example.org" and the selector "default".
ExampleDomain == <<"e", "x", "a", "m", "p", "l", "e", ".", "o", "r", "g">>
ExampleSelector == <<"d", "e", "f", "a", "u", "l", "t">>

\* The directive values Init is given where the key path is looked at:
\* templates with no placeholder, with each placeholder, with one
\* placeholder twice and with a placeholder cut short; a domain that reads
\* like a placeholder.
KeyPathConfigs ==
    [domain : {<<>>, <<"x">>, ExampleDomain, SelectorToken},
     selector : {<<>>, <<"s">>, ExampleSelector},
     keyPathTemplate : KeyPathTemplates \cup
                       { DefaultKeyPathTemplate,
                         DomainToken \o DomainToken,
                         SelectorToken \o <<"/">> \o SubSeq(DomainToken, 1, 7) },
     oversignHeader : {<<"From">>},
     signHeader : {<<"Subject">>},
     headerCanon : {"relaxed"}, bodyCanon : {"relaxed"},
     sigExpiry : {5},
     hashName : {"sha256"},
     newKeyAlgo : {"rsa2048"}]

\* The values of the modifier's directives after cfg.Process.
ModifierConfigs ==
    [domain : {<<>>, <<"x">>},
     selector : {<<>>, <<"s">>},
     keyPathTemplate : KeyPathTemplates,
     oversignHeader : {<<"From">>},
     signHeader : {<<"Subject">>},
     headerCanon : {"relaxed"}, bodyCanon : {"relaxed"},
     sigExpiry : {5},
     hashName : {"sha256"},
     newKeyAlgo : {"rsa2048"}]

\* The Modifier's fields that cfg.Process stores.
StoredConfig(m, cfg) ==
    [m EXCEPT !.domain = cfg.domain, !.selector = cfg.selector,
              !.oversignHeader = cfg.oversignHeader, !.signHeader = cfg.signHeader,
              !.headerCanon = cfg.headerCanon, !.bodyCanon = cfg.bodyCanon,
              !.sigExpiry = cfg.sigExpiry]

\* Whether the domain is not specified.
DomainMissing(m) == m.domain = <<>>

\* A test of the selector that is left out.
SelectorMissingNever(m) == FALSE

\* Whether the selector is not specified.
SelectorMissing(m) == m.selector = <<>>

\* Modifier.Init from the call of cfg.Process on, for the Modifier m that
\* holds the stored directives: what it returns, the calls it makes
\* outside and the Modifier after it.  failAt names the outside call that
\* fails if Init comes to make it.
ModifierInitResult(m, cfg, failAt) ==
    IF DomainMissing(m)
    THEN [ret |-> ErrorsNew("sign_domain: domain is not specified"), calls |-> <<>>, m |-> m]
    ELSE IF SelectorMissing(m)
    THEN [ret |-> ErrorsNew("sign_domain: selector is not specified"), calls |-> <<>>, m |-> m]
    ELSE LET m1 == [m EXCEPT !.hash = cfg.hashName]
             keyPath == Replace(cfg.keyPathTemplate, m1.domain, m1.selector)
             load == ExtCall("loadOrGenerateKey",
                             [domain |-> m1.domain, selector |-> m1.selector,
                              keyPath |-> keyPath, newKeyAlgo |-> cfg.newKeyAlgo])
         IN  IF failAt = "loadOrGenerateKey"
             THEN [ret |-> LibError("loadOrGenerateKey"), calls |-> <<load>>, m |-> m1]
             ELSE [ret |-> Nil, calls |-> <<load>>,
                   m |-> [m1 EXCEPT !.signer = KeyLoaded(keyPath)]]

\* Modifier.Init.  When cfg.Process fails, the directives it has stored by
\* then are not known: stored says whether they all are.
InitModifier(cfg, failAt, stored) ==
    /\ ~inited["sign_dkim"]
    /\ inited' = [inited EXCEPT !["sign_dkim"] = TRUE]
    /\ IF failAt = "cfg.Process"
       THEN /\ modifier' = IF stored THEN StoredConfig(modifier, cfg) ELSE modifier
            /\ initLast' = InitCall("Modifier.Init", cfg, LibError("cfg.Process"), <<>>)
       ELSE LET r == ModifierInitResult(StoredConfig(modifier, cfg), cfg, failAt)
            IN  /\ modifier' = r.m
                /\ initLast' = InitCall("Modifier.Init", cfg, r.ret, r.calls)
    /\ UNCHANGED <<storageVars, msg, nsigns, signLast, back>>

\* The outside calls of the two Init methods that can fail.
StorageInitFailures == {"none", "cfg.Process", "os.MkdirAll", "imapsql.New"}
ModifierInitFailures == {"none", "cfg.Process", "loadOrGenerateKey"}

\* No module is initialised yet.
Startup ==
    /\ back = "nil"
    /\ inited = [m \in Modules |-> FALSE]
    /\ initLast = NoInitCall

\* Startup is over: the backend is open and no Init call is left to make.
Running ==
    /\ back = "backend"
    /\ inited = [m \in Modules |-> TRUE]
    /\ initLast = NoInitCall

\* The calls made on the modules at startup, and GetOrCreateUser after it.
InitNext ==
    \/ \E cfg \in StorageConfigs, failAt \in StorageInitFailures, stored \in BOOLEAN :
          InitStorage(cfg, failAt, stored)
    \/ \E cfg \in ModifierConfigs, failAt \in ModifierInitFailures, stored \in BOOLEAN :
          InitModifier(cfg, failAt, stored)
    \/ \E username \in RcptAddrs, resp \in {Nil, ErrBackendIO} :
          GetOrCreateUser(username, resp)

InitSpecInit == StorageIdle /\ SignIdle /\ Startup

\* The initialisation of one storage module and one signing modifier.
InitSpec == InitSpecInit /\ [][InitNext]_vars

KeyPathNext ==
    \E cfg \in KeyPathConfigs, failAt \in ModifierInitFailures, stored \in BOOLEAN :
       InitModifier(cfg, failAt, stored)

\* The initialisation of one signing modifier, over the key paths.
KeyPathSpec == InitSpecInit /\ [][KeyPathNext]_vars

Init == StorageInit /\ SignIdle /\ Running

Next == DeliveryNext(1)

\* One delivery transaction against one Storage.
Spec == Init /\ [][Next]_vars

\* The recipients given to two interleaved deliveries: two addresses of
\* one shared account, and one of another.
TwoRcptAddrs == { <<"b">>, <<"B", "@", "x">>, <<"a", "@", "x">> }

\* The calls a caller can make on the delivery object id when two
\* deliveries are open.
TwoDeliveryNext(id) ==
    \/ \E m \in MsgMetas, f \in MailFroms, resp \in {Nil, ErrBackendIO} :
          Start(id, m, f, resp)
    \/ \E rcptTo \in TwoRcptAddrs, resp \in {Nil, ErrBackendIO} : AddRcpt(id, rcptTo, resp)
    \/ \E h \in BodyHeaders, r1 \in {Nil, ErrBackendIO}, r2 \in {Nil, ErrBackendIO} :
          Body(id, h, r1, r2)
    \/ \E resp \in {Nil, ErrBackendIO} : Abort(id, resp)
    \/ \E resp \in {Nil, ErrBackendIO} : Commit(id, resp)

TwoNext == TwoDeliveryNext(1) \/ TwoDeliveryNext(2)

\* Two delivery transactions of one Storage, their calls interleaved.
TwoSpec == Init /\ [][TwoNext]_vars

SignSpecInit == StorageIdle /\ SignInit /\ Running

SignSpecNext == SignNext

\* Messages passing through one sign_dkim modifier.
SignSpec == SignSpecInit /\ [][SignSpecNext]_vars

(***************************************************************************)
(* Properties of the delivery transaction.                                 *)
(***************************************************************************)
\* This step is a call of method op on delivery id.
IsCall(id, op) == nops' = nops + 1 /\ last'.id = id /\ last'.op = op

\* The calls the step added to the backend handle of delivery id.
NewCalls(id) ==
    SubSeq(handles'[id].calls, Len(handles[id].calls) + 1, Len(handles'[id].calls))

\* Number of calls of operation op in a sequence of backend calls.
CountOp(calls, op) == Cardinality({i \in 1..Len(calls) : calls[i].op = op})

\* The last call recorded on the backend handle of the last call's delivery.
LastBackendCall == handles[last.id].calls[Len(handles[last.id].calls)]

\* C1: once the backend has accepted an account in a transaction, a later
\* AddRcpt whose recipient resolves to that account returns nil and makes
\* no call on the backend; an AddRcpt for an account not yet accepted makes
\* exactly one backend AddRcpt call for that account and returns nil
\* exactly when the backend does.  So no account is added twice.
C1_NoAccountAddedTwice ==
    [][\A id \in DeliveryIds :
         IsCall(id, "AddRcpt") =>
           LET r == ResolveAccount(storagePerDomain, last'.arg)
           IN  ~r.err =>
                 IF r.accountName \in handles[id].added
                 THEN /\ NewCalls(id) = <<>>
                      /\ last'.ret = Nil
                      /\ handles'[id].added = handles[id].added
                 ELSE /\ Len(NewCalls(id)) = 1
                      /\ NewCalls(id)[1].op = "AddRcpt"
                      /\ NewCalls(id)[1].account = r.accountName
                      /\ (last'.ret = Nil) = (last'.backRets = <<Nil>>)]_vars

\* C1 witness: under the per-domain policy three AddRcpt calls were made,
\* the second was a duplicate of the first (no backend call), and the third,
\* for another account, reached the backend and succeeded.
C1_Witness ==
    /\ storagePerDomain
    /\ nops = 3
    /\ CountOp(handles[1].calls, "AddRcpt") = 2
    /\ Len(handles[1].calls) = 2
    /\ Cardinality(handles[1].added) = 2
    /\ last.op = "AddRcpt" /\ last.ret = Nil /\ last.backRets = <<Nil>>

\* C2: one call of Body makes at most one BodyParsed call on the backend,
\* whatever the number of recipients added, and exactly one unless the
\* junk-mailbox instruction failed before it.
C2_OneDepositPerBody ==
    [][\A id \in DeliveryIds :
         IsCall(id, "Body") =>
           /\ CountOp(NewCalls(id), "BodyParsed") <= 1
           /\ CountOp(NewCalls(id), "BodyParsed") = 0 =>
                /\ deliveries[id].msgMeta.Quarantine
                /\ Len(NewCalls(id)) = 1
                /\ NewCalls(id)[1].op = "SpecialMailbox"
                /\ last'.ret # Nil]_vars

\* C2 witness: Body succeeded after two recipients were added, and the
\* backend saw one BodyParsed call.
C2_Witness ==
    /\ deliveries[1].started
    /\ Cardinality(deliveries[1].addedRcpts) = 2
    /\ last.op = "Body" /\ last.ret = Nil
    /\ CountOp(handles[1].calls, "BodyParsed") = 1

\* C3: once the backend's transaction is finalized (a Commit or an Abort
\* returned nil), every further call on the delivery is rejected: it
\* returns an error and makes no call on the backend handle.
C3_FinalizedRejectsCalls ==
    [][\A id \in DeliveryIds :
         (handles[id].final # "open" /\ nops' = nops + 1 /\ last'.id = id) =>
           /\ last'.ret # Nil
           /\ NewCalls(id) = <<>>]_vars

\* C4: AddRcpt returns 501/5.1.3 without a backend call when the address
\* does not resolve, 550/5.1.1 when the backend answers with one of its two
\* sentinels, and the backend's own error value for any other error.
C4_AddRcptErrorMapping ==
    last.op = "AddRcpt" =>
      /\ ResolveAccount(storagePerDomain, last.arg).err =>
           last.ret = SMTPError(501, <<5, 1, 3>>) /\ last.backRets = <<>>
      /\ \A e \in BackendResults \ {Nil} :
           last.backRets = <<e>> =>
             IF e \in {LibError("imapsql.ErrUserDoesntExists"),
                       LibError("backend.ErrNoSuchMailbox")}
             THEN last.ret = SMTPError(550, <<5, 1, 1>>)
             ELSE last.ret = e

\* C4 witness: the backend answered "no such mailbox" and AddRcpt returned
\* the 550 rejection.
C4_Witness ==
    /\ last.op = "AddRcpt"
    /\ last.backRets = <<ErrNoSuchMailbox>>
    /\ last.ret.code = 550

\* C5: under the per-domain policy an AddRcpt whose address has no at-sign
\* fails, makes no backend call and adds nothing to the recipient set.
C5_PerDomainNeedsDomain ==
    [][\A id \in DeliveryIds :
         (storagePerDomain /\ IsCall(id, "AddRcpt") /\ ~Contains(last'.arg, "@")) =>
           /\ last'.ret # Nil
           /\ NewCalls(id) = <<>>
           /\ deliveries'[id].addedRcpts = deliveries[id].addedRcpts]_vars

\* The account the shared policy names for an address: the case-folded
\* longest prefix that holds no at-sign.
SharedAccountOf(addr) ==
    LET n == CHOOSE n \in 0..Len(addr) :
                 /\ \A i \in 1..n : addr[i] # "@"
                 /\ n = Len(addr) \/ addr[n + 1] = "@"
    IN  ToLower(SubSeq(addr, 1, n))

C10_DeliveredToLiteral ==
    (last.op = "AddRcpt" /\ last.backRets # <<>>) =>
      LET c == LastBackendCall
      IN  /\ c.op = "AddRcpt"
          /\ Len(c.header) = 1
          /\ c.header[1].k = "Delivered-To"
          /\ c.header[1].v = last.arg
          /\ c.account = ResolveAccount(storagePerDomain, last.arg).accountName
          /\ c.account = ToLower(c.account)

\* C10 witness: AddRcpt("B@x") under the shared policy reached the backend
\* with account "b" and Delivered-To "B@x".
C10_Witness ==
    /\ ~storagePerDomain
    /\ last.op = "AddRcpt" /\ last.arg = <<"B", "@", "x">>
    /\ last.backRets # <<>>
    /\ LastBackendCall.account = <<"b">>
    /\ LastBackendCall.header[1].v = <<"B", "@", "x">>

(***************************************************************************)
(* Properties of the signing modifier.                                     *)
(***************************************************************************)
\* Number of references in res to a name, compared without regard to case.
CountRefs(res, name) ==
    Cardinality({i \in 1..Len(res) : ToLowerName(res[i]) = ToLowerName(name)})

\* Number of fields of a header set that carry a name, compared without
\* regard to case.
Occurrences(h, name) ==
    Cardinality({i \in 1..Len(h) : ToLowerName(h[i].k) = ToLowerName(name)})

\* Whether a configured list holds a name, compared without regard to case.
InList(list, name) ==
    \E i \in 1..Len(list) : ToLowerName(list[i]) = ToLowerName(name)

\* C7: in the HeaderKeys that RewriteBody takes from fieldsToSign, a name
\* of the oversign list with k fields in the message has k+1 references,
\* and a name that is only in the sign list has k references (names and
\* references counted without regard to case).
C7_FieldsToSignCounts ==
    signLast.op = "RewriteBody" =>
      \A name \in ConfigNames :
        LET k == Occurrences(signLast.h, name)
            n == CountRefs(signLast.opts.HeaderKeys, name)
        IN  /\ InList(modifier.oversignHeader, name) => n = k + 1
            /\ (InList(modifier.signHeader, name)
                  /\ ~InList(modifier.oversignHeader, name)) => n = k

\* C7 witness: oversign list {Subject}, empty sign list, one Subject field:
\* the references are Subject, Subject.
C7_Witness ==
    /\ modifier.oversignHeader = <<"Subject">>
    /\ modifier.signHeader = <<>>
    /\ signLast.op = "RewriteBody"
    /\ Occurrences(signLast.h, "Subject") = 1
    /\ signLast.opts.HeaderKeys = <<"Subject", "Subject">>

\* The first spelling of a name in the oversign list followed by the sign
\* list.
FirstSpelling(m, name) ==
    LET all == m.oversignHeader \o m.signHeader
        i == CHOOSE i \in 1..Len(all) :
                 /\ ToLowerName(all[i]) = ToLowerName(name)
                 /\ \A j \in 1..(i - 1) : ToLowerName(all[j]) # ToLowerName(name)
    IN  all[i]

\* C8: a name that is configured more than once (in both lists, or twice in
\* one list, in any letter case) is processed once: every reference carries
\* the spelling of the name's first configured position, a name that is in
\* both lists is counted under the oversign rule (k+1), and no field with k
\* occurrences has more than k+1 references.
C8_NamesProcessedOnce ==
    signLast.op = "RewriteBody" =>
      LET res == signLast.opts.HeaderKeys
      IN  /\ \A i \in 1..Len(res) :
               /\ InList(modifier.oversignHeader \o modifier.signHeader, res[i])
               /\ res[i] = FirstSpelling(modifier, res[i])
          /\ \A name \in ConfigNames \cup HeaderKeys :
               /\ CountRefs(res, name) <= Occurrences(signLast.h, name) + 1
               /\ (InList(modifier.oversignHeader, name)
                     /\ InList(modifier.signHeader, name)) =>
                    CountRefs(res, name) = Occurrences(signLast.h, name) + 1

\* C8 witness: "From" is oversigned and "from" is in the sign list; a
\* message with two From fields gets the three references From, From, From.
C8_Witness ==
    /\ modifier.oversignHeader = <<"From">>
    /\ modifier.signHeader = <<"from">>
    /\ signLast.op = "RewriteBody"
    /\ Occurrences(signLast.h, "From") = 2
    /\ signLast.opts.HeaderKeys = <<"From", "From", "From">>

\* h2 is h with one DKIM-Signature field added and nothing else changed.
OneSignatureAdded(h, h2) ==
    /\ Len(h2) = Len(h) + 1
    /\ \E i \in 1..Len(h2) :
         /\ h2[i].k = "DKIM-Signature"
         /\ [j \in 1..Len(h) |-> IF j < i THEN h2[j] ELSE h2[j + 1]] = h

C14_JunkRoutingBeforeDeposit ==
    [][\A id \in DeliveryIds :
         IsCall(id, "Body") =>
           IF deliveries[id].msgMeta.Quarantine
           THEN /\ NewCalls(id) # <<>>
                /\ NewCalls(id)[1].op = "SpecialMailbox"
                /\ NewCalls(id)[1].use = SpecialUseJunk
                /\ NewCalls(id)[1].mbox = JunkMbox
                /\ CountOp(NewCalls(id), "SpecialMailbox") = 1
                /\ IF last'.backRets[1] # Nil
                   THEN /\ last'.ret = last'.backRets[1]
                        /\ Len(NewCalls(id)) = 1
                   ELSE /\ Len(NewCalls(id)) = 2
                        /\ NewCalls(id)[2].op = "BodyParsed"
           ELSE CountOp(NewCalls(id), "SpecialMailbox") = 0]_vars

\* C14 witness: Body on a quarantined message returned the error of the
\* failed junk-routing instruction, which is the only call the backend saw
\* after the recipient was added.
C14_Witness ==
    /\ deliveries[1].started
    /\ deliveries[1].msgMeta.Quarantine
    /\ last.op = "Body" /\ last.ret = ErrBackendIO /\ last.backRets = <<ErrBackendIO>>
    /\ LastBackendCall.op = "SpecialMailbox"
    /\ LastBackendCall.mbox = JunkMbox
    /\ CountOp(handles[1].calls, "BodyParsed") = 0
    /\ CountOp(handles[1].calls, "AddRcpt") = 1

\* C17: a Commit call makes exactly one call on the backend's handle, a
\* Commit, and an Abort call exactly one, an Abort; each returns the
\* backend's result unchanged and leaves the delivery object as it was.
\* Abort is forwarded in whatever state the delivery is: with no recipient
\* added, after an AddRcpt, after a Body and after a failed Body.
C17_FinalizersForwardOnce ==
    [][\A id \in DeliveryIds :
         /\ \A op \in {"Commit", "Abort"} :
              IsCall(id, op) =>
                /\ Len(NewCalls(id)) = 1
                /\ NewCalls(id)[1].op = op
                /\ last'.backRets # <<>>
                /\ last'.ret = last'.backRets[1]
                /\ deliveries'[id] = deliveries[id]
         /\ (deliveries[id].started /\ nops < MaxOps) =>
              \A resp \in {Nil, ErrBackendIO} : ENABLED Abort(id, resp)]_vars

\* C17 witness: a Body failed at the deposit and the Abort that followed
\* was forwarded to the backend, which finalized the transaction.
C17_Witness ==
    /\ last.op = "Abort" /\ last.ret = Nil /\ last.backRets = <<Nil>>
    /\ handles[1].final = "Abort"
    /\ Len(handles[1].calls) = 3
    /\ handles[1].calls[1].op = "AddRcpt"
    /\ handles[1].calls[2].op = "BodyParsed"
    /\ handles[1].calls[3].op = "Abort"
    /\ CountOp(handles[1].calls, "Abort") = 1

\* C15: the identifier RewriteBody gives the signer is the message's
\* original envelope sender as it is when that holds an at-sign, and
\* otherwise the sender followed by an at-sign and the signing domain.
C15_SignIdentifier ==
    signLast.op = "RewriteBody" =>
      LET from == msg.meta.OriginalFrom
      IN  IF \E i \in 1..Len(from) : from[i] = "@"
          THEN signLast.opts.Identifier = from
          ELSE /\ Len(signLast.opts.Identifier) = Len(from) + 1 + Len(modifier.domain)
               /\ SubSeq(signLast.opts.Identifier, 1, Len(from)) = from
               /\ signLast.opts.Identifier[Len(from) + 1] = "@"
               /\ SubSeq(signLast.opts.Identifier, Len(from) + 2,
                         Len(signLast.opts.Identifier)) = modifier.domain

\* C15 witness: a message from "a" was signed with identifier "a@x".
C15_Witness ==
    /\ signLast.op = "RewriteBody" /\ signLast.ret = Nil
    /\ msg.meta.OriginalFrom = <<"a">>
    /\ signLast.opts.Identifier = <<"a", "@", "x">>

ListPlace(m, name) ==
    LET all == m.oversignHeader \o m.signHeader
    IN  CHOOSE i \in 1..Len(all) :
            /\ ToLowerName(all[i]) = ToLowerName(name)
            /\ \A j \in 1..(i - 1) : ToLowerName(all[j]) # ToLowerName(name)

\* C19: the references RewriteBody takes from fieldsToSign stand in the
\* order of the oversign list followed by the sign list: the references to
\* one name are together, a name of the oversign list with k fields has
\* k+1 of them, a name of the sign list alone has k, and no reference to a
\* name of the sign list alone stands before one to an oversigned name.
C19_FieldsToSignOrder ==
    signLast.op = "RewriteBody" =>
      LET res == signLast.opts.HeaderKeys
          all == modifier.oversignHeader \o modifier.signHeader
          nOver == Len(modifier.oversignHeader)
      IN  /\ \A i \in 1..Len(res) : InList(all, res[i])
          /\ \A i, j \in 1..Len(res) :
               i < j => ListPlace(modifier, res[i]) <= ListPlace(modifier, res[j])
          /\ \A i, j \in 1..Len(res) :
               (i < j /\ ListPlace(modifier, res[j]) <= nOver)
                  => ListPlace(modifier, res[i]) <= nOver
          /\ \A p \in 1..Len(all) :
               ListPlace(modifier, all[p]) = p =>
                 Cardinality({i \in 1..Len(res) : ListPlace(modifier, res[i]) = p})
                   = Occurrences(signLast.h, all[p]) + (IF p <= nOver THEN 1 ELSE 0)

\* C19 witness: Subject is oversigned and From is signed, the message has
\* From, Subject, From: the two Subject references come first.
C19_Witness ==
    /\ signLast.op = "RewriteBody"
    /\ modifier.oversignHeader = <<"Subject">>
    /\ modifier.signHeader = <<"From">>
    /\ Len(signLast.h) = 3
    /\ signLast.opts.HeaderKeys = <<"Subject", "Subject", "From", "From">>

\* C20: the options RewriteBody gives the signer carry an expiration, the
\* current time plus the configured duration, exactly when the configured
\* duration is not zero.
C20_ExpirationWhenConfigured ==
    signLast.op = "RewriteBody" =>
      /\ signLast.opts.Expiration.set = (modifier.sigExpiry # 0)
      /\ signLast.opts.Expiration.set =>
           signLast.opts.Expiration.t = signLast.now + modifier.sigExpiry

\* C20 witness: with an expiry of 5 a message signed at time 20 got the
\* expiration 25.
C20_Witness ==
    /\ signLast.op = "RewriteBody"
    /\ modifier.sigExpiry = 5
    /\ signLast.now = 20
    /\ signLast.opts.Expiration = [set |-> TRUE, t |-> 25]

(***************************************************************************)
(* Properties of two transactions of one Storage.                          *)
(***************************************************************************)
\* C12: a call on one delivery changes neither the other delivery's
\* recipient set and fields nor the other's backend handle, and AddRcpt
\* decides on a duplicate from the recipients of its own delivery alone:
\* an account added in one transaction still reaches the backend when it
\* is added in the other.
C12_DeliveriesIndependent ==
    [][\A id \in DeliveryIds :
         /\ last'.id # id =>
              /\ deliveries'[id] = deliveries[id]
              /\ handles'[id] = handles[id]
         /\ IsCall(id, "AddRcpt") =>
              LET r == ResolveAccount(storagePerDomain, last'.arg)
              IN  ~r.err =>
                    /\ (NewCalls(id) = <<>>) = (r.accountName \in deliveries[id].addedRcpts)
                    /\ deliveries'[id].addedRcpts \subseteq
                          deliveries[id].addedRcpts \cup {r.accountName}]_vars

\* C12 witness: both transactions are open, the first has added an account
\* and the second's AddRcpt for the same account went to the backend and
\* was accepted there.
C12_Witness ==
    /\ deliveries[1].started /\ deliveries[2].started
    /\ deliveries[1].addedRcpts # {}
    /\ deliveries[2].addedRcpts = deliveries[1].addedRcpts
    /\ last.id = 2 /\ last.op = "AddRcpt" /\ last.ret = Nil /\ last.backRets = <<Nil>>
    /\ Len(handles[1].calls) = 1 /\ Len(handles[2].calls) = 1

(***************************************************************************)
(* Properties of initialisation and of GetOrCreateUser.                    *)
(***************************************************************************)
\* The imapsql.New calls among the calls of the last Init.
NewCallsOfInit ==
    {i \in 1..Len(initLast.calls) : initLast.calls[i].fn = "imapsql.New"}

\* C11: Storage.Init answers an append limit above the largest 32-bit
\* unsigned number with an error, without opening the backend, and answers
\* no other limit with that error; when it opens the backend, the limit it
\* passes is the configured value itself, and no limit at all when the
\* configured value is the one that stands for "unlimited".
C11_AppendLimitRange ==
    initLast.op = "Storage.Init" =>
      LET v == initLast.cfg.appendlimit
          tooLarge == v # MinusOne /\ Greater(v, MaxUint32)
      IN  /\ tooLarge => /\ initLast.ret # Nil
                         /\ NewCallsOfInit = {}
                         /\ back = "nil"
          /\ initLast.ret = ErrorsNew("sql: appendlimit can't be higher than 2 GiB")
                => tooLarge
          /\ \A i \in NewCallsOfInit :
               LET limit == initLast.calls[i].args.opts.MaxMsgBytes
               IN  IF v = MinusOne
                   THEN ~limit.set
                   ELSE limit.set /\ limit.val = v

\* C11 witness: Init succeeded with the limit 4294967295 and opened the
\* backend with that limit.
C11_Witness ==
    /\ initLast.op = "Storage.Init"
    /\ initLast.cfg.appendlimit = GoInt(65535, 65535)
    /\ initLast.ret = Nil
    /\ back = "backend"
    /\ \E i \in NewCallsOfInit :
         initLast.calls[i].args.opts.MaxMsgBytes = [set |-> TRUE, val |-> GoInt(65535, 65535)]

\* C13: GetOrCreateUser gives the backend the account name of the account
\* resolver: under the per-domain policy a username without an at-sign is
\* answered with an error and no backend call, and otherwise the account is
\* the case-folded username; under the shared policy it is the case-folded
\* part before the first at-sign.  So the account is the one AddRcpt uses
\* for the same address.
C13_GetOrCreateUserAccount ==
    initLast.op = "GetOrCreateUser" =>
      LET username == initLast.cfg
      IN  IF storagePerDomain /\ \A i \in 1..Len(username) : username[i] # "@"
          THEN initLast.ret # Nil /\ initLast.calls = <<>>
          ELSE /\ Len(initLast.calls) = 1
               /\ initLast.calls[1].fn = "back.GetOrCreateUser"
               /\ initLast.calls[1].args.account =
                     (IF storagePerDomain THEN ToLower(username)
                                          ELSE SharedAccountOf(username))
               /\ ~ResolveAccount(storagePerDomain, username).err =>
                     initLast.calls[1].args.account =
                        ResolveAccount(storagePerDomain, username).accountName

\* C18: Modifier.Init with an empty domain or an empty selector returns an
\* error, makes no call to load or generate a key and leaves the signer
\* unset; Storage.Init with no driver, with no DSN, or with auth_perdomain
\* and no auth_domains returns an error, does not call imapsql.New and
\* leaves store.back unset.
C18_ConfigErrorPreventsActivation ==
    /\ (/\ initLast.op = "Modifier.Init"
        /\ initLast.cfg.domain = <<>> \/ initLast.cfg.selector = <<>>)
         => /\ initLast.ret # Nil
            /\ initLast.calls = <<>>
            /\ ~modifier.signer.set
    /\ (/\ initLast.op = "Storage.Init"
        /\ \/ initLast.cfg.driver = ""
           \/ initLast.cfg.dsn \in {<<>>, <<"">>}
           \/ initLast.cfg.authPerDomain /\ initLast.cfg.authDomains.isNil)
         => /\ initLast.ret # Nil
            /\ NewCallsOfInit = {}
            /\ back = "nil"

\* C18 witness: Storage.Init has failed and left the backend unset, and
\* Modifier.Init, given a domain and no selector, has returned its error
\* with no key loaded.
C18_Witness ==
    /\ inited["sql"] /\ back = "nil"
    /\ initLast.op = "Modifier.Init"
    /\ initLast.cfg.domain = <<"x">> /\ initLast.cfg.selector = <<>>
    /\ initLast.ret = ErrorsNew("sign_domain: selector is not specified")
    /\ initLast.calls = <<>>
    /\ ~modifier.signer.set

(***************************************************************************)
(* Properties of the key path.                                             *)
(***************************************************************************)
\* Whether the placeholder token stands in the template at position i.
TokenAt(template, i, token) ==
    /\ i + Len(token) - 1 <= Len(template)
    /\ SubSeq(template, i, i + Len(token) - 1) = token

\* Whether position i of the template lies in a placeholder that started
\* before it.
InsideToken(template, i) ==
    \E j \in 1..(i - 1), token \in {DomainToken, SelectorToken} :
       TokenAt(template, j, token) /\ i <= j + Len(token) - 1

\* The template from position i on, with each placeholder of the template
\* replaced and every other character kept.
RECURSIVE Substituted(_, _, _, _)
Substituted(template, i, domain, selector) ==
    IF i > Len(template) THEN <<>>
    ELSE (IF TokenAt(template, i, DomainToken) THEN domain
          ELSE IF TokenAt(template, i, SelectorToken) THEN selector
          ELSE IF InsideToken(template, i) THEN <<>>
          ELSE <<template[i]>>)
         \o Substituted(template, i + 1, domain, selector)

\* C21: the key path Init gives loadOrGenerateKey, and keeps with the
\* signer, is the key_path template with each {domain} placeholder of the
\* template replaced by the domain and each {selector} placeholder by the
\* selector, what is put in not being replaced again; the default template
\* with domain "example.org" and selector "default" gives
\* "dkim_keys/example.org_default.key".
C21_KeyPathSubstitution ==
    (initLast.op = "Modifier.Init" /\ initLast.calls # <<>>) =>
      LET cfg == initLast.cfg
          keyPath == initLast.calls[1].args.keyPath
      IN  /\ initLast.calls[1].fn = "loadOrGenerateKey"
          /\ keyPath = Substituted(cfg.keyPathTemplate, 1, cfg.domain, cfg.selector)
          /\ initLast.ret = Nil => modifier.signer = KeyLoaded(keyPath)
          /\ (/\ cfg.keyPathTemplate = DefaultKeyPathTemplate
              /\ cfg.domain = ExampleDomain
              /\ cfg.selector = ExampleSelector)
               => keyPath = <<"d", "k", "i", "m", "_", "k", "e", "y", "s", "/", "e", "x", "a", "m", "p", "l", "e", ".", "o", "r", "g", "_", "d", "e", "f", "a", "u", "l", "t", ".", "k", "e", "y">>

\* C21 witness: Init succeeded with the template "{domain}{domain}", a
\* domain that reads "{selector}" and the selector "s": the key path is
\* "{selector}{selector}".
C21_Witness ==
    /\ initLast.op = "Modifier.Init" /\ initLast.ret = Nil
    /\ initLast.cfg.keyPathTemplate = DomainToken \o DomainToken
    /\ initLast.cfg.domain = SelectorToken
    /\ initLast.cfg.selector = <<"s">>
    /\ modifier.signer = KeyLoaded(SelectorToken \o SelectorToken)

(***************************************************************************)
(* Properties of the recipient set.                                        *)
(***************************************************************************)
\* C22: an AddRcpt call that returns an error leaves the delivery's
\* recipient set as it was, so an AddRcpt for an account that is not in
\* the set is passed on to the backend, whatever failed before; and the
\* recipient set is always the set of accounts the backend has accepted in
\* this transaction.
C22_RecipientSetIsAcceptedSet ==
    [][\A id \in DeliveryIds :
         /\ deliveries'[id].started =>
              deliveries'[id].addedRcpts = handles'[id].added
         /\ IsCall(id, "AddRcpt") =>
              /\ last'.ret # Nil =>
                   deliveries'[id].addedRcpts = deliveries[id].addedRcpts
              /\ LET r == ResolveAccount(storagePerDomain, last'.arg)
                 IN  (~r.err /\ r.accountName \notin deliveries[id].addedRcpts) =>
                        /\ Len(NewCalls(id)) = 1
                        /\ NewCalls(id)[1].op = "AddRcpt"
                        /\ NewCalls(id)[1].account = r.accountName]_vars

\* C22 witness: the backend refused an account with an error of its own,
\* the recipient set stayed empty, and a second AddRcpt for the same
\* account was passed on to the backend and accepted.
C22_Witness ==
    /\ nops = 2
    /\ Len(handles[1].calls) = 2
    /\ handles[1].calls[1].op = "AddRcpt" /\ handles[1].calls[2].op = "AddRcpt"
    /\ handles[1].calls[1].account = handles[1].calls[2].account
    /\ last.op = "AddRcpt" /\ last.ret = Nil /\ last.backRets = <<Nil>>
    /\ deliveries[1].addedRcpts = {handles[1].calls[2].account}

\* Whether a string holds no upper-case letter.
IsLowerCase(s) == \A i \in 1..Len(s) : s[i] \notin {"A", "B", "X"}

\* Whether two strings differ in letter case at most.
SameButCase(s, t) ==
    /\ Len(s) = Len(t)
    /\ \A i \in 1..Len(s) :
         \/ s[i] = t[i]
         \/ {s[i], t[i]} \in {{"A", "a"}, {"B", "b"}, {"X", "x"}}

\* C23: under either policy every account in the recipient set and every
\* account given to the backend's AddRcpt is in lower case; an AddRcpt for
\* an address that differs only in letter case from one the backend was
\* given, its account accepted, returns nil without a backend call, so the
\* Delivered-To header of the account stays the one of the first address.
C23_AccountsLowerCase ==
    [][\A id \in DeliveryIds :
         /\ deliveries'[id].started =>
              \A a \in deliveries'[id].addedRcpts : IsLowerCase(a)
         /\ \A i \in 1..Len(handles'[id].calls) :
              handles'[id].calls[i].op = "AddRcpt" =>
                IsLowerCase(handles'[id].calls[i].account)
         /\ IsCall(id, "AddRcpt") =>
              ((\E i \in 1..Len(handles[id].calls) :
                   /\ handles[id].calls[i].op = "AddRcpt"
                   /\ handles[id].calls[i].account \in handles[id].added
                   /\ SameButCase(handles[id].calls[i].header[1].v, last'.arg))
                 => /\ NewCalls(id) = <<>>
                    /\ last'.ret = Nil
                    /\ deliveries'[id] = deliveries[id])]_vars

\* C23 witness: under the per-domain policy "B@x" was accepted as account
\* "b@x" with Delivered-To "B@x", and "b@X" after it returned nil without
\* a backend call.
C23_Witness ==
    /\ storagePerDomain
    /\ Len(handles[1].calls) = 1
    /\ handles[1].calls[1].account = <<"b", "@", "x">>
    /\ handles[1].calls[1].header[1].v = <<"B", "@", "x">>
    /\ deliveries[1].addedRcpts = {<<"b", "@", "x">>}
    /\ last.op = "AddRcpt" /\ last.arg = <<"b", "@", "X">>
    /\ last.ret = Nil /\ last.backRets = <<>>

=============================================================================
